---- MODULE Spec2Model ----
(***************************************************************************)
(* Model of the QFieldCloud job dequeue command                            *)
(* (docker-app/qfieldcloud/core/management/commands/dequeue.py).           *)
(*                                                                         *)
(* Several worker processes run Command.handle against one job table.     *)
(* One SQL statement is one step: a statement sees the committed rows and  *)
(* the row locks held at the moment it runs (READ COMMITTED), and a        *)
(* transaction's own write becomes visible to the others at its commit.    *)
(***************************************************************************)
EXTENDS Integers, Sequences, FiniteSets

(* ---------------------------------------------------------------- bounds *)
NumInstances == 2
NumProjects == 2
MaxJobs == 3

(* ------------------------------------------------------------- constants *)
SECONDS == 5

Instances == 1..NumInstances
Projects == 1..NumProjects
None == 0

PENDING == "pending"
QUEUED == "queued"
STARTED == "started"
FINISHED == "finished"
FAILED == "failed"

PACKAGE == "package"
DELTA_APPLY == "delta_apply"
PROCESS_PROJECTFILE == "process_projectfile"
OTHER_TYPE == "other"

VARIABLES
    jobs,         \* the committed job table: jobs[id] is the row of job id
    pc,           \* pc[i]: where worker i is in Command.handle
    alive,        \* alive[i]: killer.alive of worker i
    single_shot,  \* single_shot[i]: options["single_shot"] of worker i
    queued_job,   \* queued_job[i]: the local queued_job of worker i, or None
    sleep_i,      \* sleep_i[i]: the index _i of the idle loop of worker i
    claims,       \* claims[id]: how many times the claim of job id was committed
    run_log       \* run_log[id]: the outcome of each _run call for job id

vars == <<jobs, pc, alive, single_shot, queued_job, sleep_i, claims, run_log>>

JobIds == DOMAIN jobs

(* ------------------------------------------------------- the claim query *)
ActiveStatuses == {QUEUED, STARTED}

\* faulty variant: the Count filter names the queued status only
active_jobs_count_queued_only(k) ==
    Cardinality({m \in JobIds : /\ jobs[m].project = jobs[k].project
                                /\ jobs[m].status = QUEUED})

\* Count("project__jobs", filter=Q(project__jobs__status__in=[QUEUED, STARTED]))
active_jobs_count(k) ==
    Cardinality({m \in JobIds : /\ jobs[m].project = jobs[k].project
                                /\ jobs[m].status \in ActiveStatuses})

\* the project ids of the pending jobs whose project has an active job
busy_projects_ids ==
    {jobs[k].project : k \in {m \in JobIds : /\ jobs[m].status = PENDING
                                             /\ active_jobs_count(m) > 0}}

\* a row lock on job k held by a transaction other than worker i's
InTransactionWithRow(o) == pc[o] = "commit"

\* faulty variant: the query takes no row lock (no select_for_update)
RowNeverLocked(i, k) == FALSE

RowLockedByOther(i, k) ==
    \E o \in Instances \ {i} : InTransactionWithRow(o) /\ queued_job[o] = k

\* faulty variant: the query lacks .exclude(project_id__in=busy_projects_ids_qs)
jobs_qs_no_exclude(i) ==
    {k \in JobIds : jobs[k].status = PENDING /\ ~RowLockedByOther(i, k)}

\* select_for_update(skip_locked=True).filter(status=PENDING)
\*     .exclude(project_id__in=busy_projects_ids_qs)
jobs_qs(i) ==
    {k \in JobIds : /\ jobs[k].status = PENDING
                    /\ jobs[k].project \notin busy_projects_ids
                    /\ ~RowLockedByOther(i, k)}

\* .order_by("created_at") ... .first(): the rows the statement can return
\* (rows of equal created_at come in an order the store does not fix)
\* faulty variant: the query has no order_by("created_at")
first_unordered(S) == S

\* faulty variant: the query has order_by("-created_at")
first_newest(S) == {k \in S : \A m \in S : jobs[k].created_at >= jobs[m].created_at}

first(S) == {k \in S : \A m \in S : jobs[k].created_at <= jobs[m].created_at}

(* ------------------------------------------------------------ the runner *)
\* faulty variant: two entries of the dispatch table are exchanged
job_run_classes_exchanged ==
    [t \in {PACKAGE, DELTA_APPLY, PROCESS_PROJECTFILE} |->
        CASE t = PACKAGE -> "PackageJobRun"
          [] t = DELTA_APPLY -> "ProcessProjectfileJobRun"
          [] t = PROCESS_PROJECTFILE -> "DeltaApplyJobRun"]

job_run_classes ==
    [t \in {PACKAGE, DELTA_APPLY, PROCESS_PROJECTFILE} |->
        CASE t = PACKAGE -> "PackageJobRun"
          [] t = DELTA_APPLY -> "DeltaApplyJobRun"
          [] t = PROCESS_PROJECTFILE -> "ProcessProjectfileJobRun"]

JobTypes == {PACKAGE, DELTA_APPLY, PROCESS_PROJECTFILE, OTHER_TYPE}

\* the types of the jobs inserted under Spec: one the runner knows, one it does not
InsertedTypes == {PACKAGE, OTHER_TYPE}

(* ------------------------------------------------------------------ Init *)
Init ==
    /\ jobs = <<>>
    /\ pc = [i \in Instances |-> "loop"]
    /\ alive = [i \in Instances |-> TRUE]
    /\ single_shot \in [Instances -> BOOLEAN]
    /\ queued_job = [i \in Instances |-> None]
    /\ sleep_i = [i \in Instances |-> 0]
    /\ claims = [k \in 1..MaxJobs |-> 0]
    /\ run_log = [k \in 1..MaxJobs |-> <<>>]

(* --------------------------------------------------------------- actions *)
\* an external request handler inserts a pending job with created_at = now:
\* the time of the last insert (tie = TRUE) or a later one
Now(tie) ==
    IF jobs = <<>> THEN 1
    ELSE IF tie THEN jobs[Len(jobs)].created_at ELSE jobs[Len(jobs)].created_at + 1

CreateJob(p, t, tie) ==
    /\ Len(jobs) < MaxJobs
    /\ jobs = <<>> => ~tie
    /\ jobs' = Append(jobs, [project |-> p, type |-> t, status |-> PENDING,
                             created_at |-> Now(tie)])
    /\ UNCHANGED <<pc, alive, single_shot, queued_job, sleep_i, claims, run_log>>

\* GracefulKiller._kill
Kill(i) ==
    /\ pc[i] \notin {"exit", "raised"}
    /\ alive[i]
    /\ alive' = [alive EXCEPT ![i] = FALSE]
    /\ UNCHANGED <<jobs, pc, single_shot, queued_job, sleep_i, claims, run_log>>

\* while killer.alive: ... queued_job = None; with transaction.atomic():
LoopTest(i) ==
    /\ pc[i] = "loop"
    /\ pc' = [pc EXCEPT ![i] = IF alive[i] THEN "select" ELSE "exit"]
    /\ queued_job' = [queued_job EXCEPT ![i] = None]
    /\ UNCHANGED <<jobs, alive, single_shot, sleep_i, claims, run_log>>

\* queued_job = jobs_qs.first(): the statement locks the row it returns. With a
\* row, queued_job.status = QUEUED and queued_job.save() follow inside the
\* transaction, where no other transaction sees the write; with no row the
\* with block ends having written nothing
SelectJob(i) ==
    /\ pc[i] = "select"
    /\ IF jobs_qs(i) = {}
       THEN /\ queued_job' = [queued_job EXCEPT ![i] = None]
            /\ pc' = [pc EXCEPT ![i] = "branch"]
       ELSE /\ \E k \in first(jobs_qs(i)) :
                   queued_job' = [queued_job EXCEPT ![i] = k]
            /\ pc' = [pc EXCEPT ![i] = "commit"]
    /\ UNCHANGED <<jobs, alive, single_shot, sleep_i, claims, run_log>>

\* leaving the with block commits the write and releases the row lock
Commit(i) ==
    /\ pc[i] = "commit"
    /\ jobs' = [jobs EXCEPT ![queued_job[i]].status = QUEUED]
    /\ claims' = [claims EXCEPT ![queued_job[i]] = @ + 1]
    /\ pc' = [pc EXCEPT ![i] = "branch"]
    /\ UNCHANGED <<alive, single_shot, queued_job, sleep_i, run_log>>

\* an exception no handler of Command.handle or Command._run catches leaves
\* the while loop and ends handle
Propagate(i) == [pc EXCEPT ![i] = "raised"]

\* faulty variant: the write is not inside transaction.atomic(), so a save
\* already made survives the error
StoreErrorNoRollback(i) ==
    /\ pc[i] \in {"select", "commit"}
    /\ pc' = [pc EXCEPT ![i] = "raised"]
    /\ jobs' = IF pc[i] = "commit"
               THEN [jobs EXCEPT ![queued_job[i]].status = QUEUED]
               ELSE jobs
    /\ UNCHANGED <<alive, single_shot, queued_job, sleep_i, claims, run_log>>

\* a store or connection error inside the with block: the transaction is rolled
\* back (the write is dropped, the row lock released) and the error is raised;
\* the local queued_job still names the row the statement had returned
StoreError(i) ==
    /\ pc[i] \in {"select", "commit"}
    /\ pc' = Propagate(i)
    /\ UNCHANGED <<jobs, alive, single_shot, queued_job, sleep_i, claims, run_log>>

\* faulty variant: the branch reads "if queued_job and killer.alive", so a signal
\* between the commit and the branch drops the claimed job
RunIfAlive(i) ==
    /\ pc[i] = "branch"
    /\ queued_job[i] # None
    /\ LET type == jobs[queued_job[i]].type IN
       IF ~alive[i]
       THEN /\ run_log' = run_log
            /\ pc' = [pc EXCEPT ![i] = "loop"]
       ELSE IF type \in DOMAIN job_run_classes
       THEN /\ run_log' = [run_log EXCEPT ![queued_job[i]] =
                               Append(@, job_run_classes[type])]
            /\ pc' = [pc EXCEPT ![i] = "run"]
       ELSE /\ run_log' = [run_log EXCEPT ![queued_job[i]] =
                               Append(@, "NotImplementedError")]
            /\ pc' = [pc EXCEPT ![i] = "raised"]
    /\ UNCHANGED <<jobs, alive, single_shot, queued_job, sleep_i, claims>>

\* if queued_job: self._run(queued_job), up to the call of job_run.run()
Run(i) ==
    /\ pc[i] = "branch"
    /\ queued_job[i] # None
    /\ LET type == jobs[queued_job[i]].type IN
       IF type \in DOMAIN job_run_classes
       THEN /\ run_log' = [run_log EXCEPT ![queued_job[i]] =
                               Append(@, job_run_classes[type])]
            /\ pc' = [pc EXCEPT ![i] = "run"]
       ELSE /\ run_log' = [run_log EXCEPT ![queued_job[i]] =
                               Append(@, "NotImplementedError")]
            /\ pc' = Propagate(i)
    /\ UNCHANGED <<jobs, alive, single_shot, queued_job, sleep_i, claims>>

\* faulty variant: the else branch lacks "if options["single_shot"]: break"
NoJobNoBreak(i) ==
    /\ pc[i] = "branch"
    /\ queued_job[i] = None
    /\ pc' = [pc EXCEPT ![i] = "sleep"]
    /\ sleep_i' = [sleep_i EXCEPT ![i] = 0]
    /\ UNCHANGED <<jobs, alive, single_shot, queued_job, claims, run_log>>

\* else: if options["single_shot"]: break; otherwise enter the idle loop
NoJob(i) ==
    /\ pc[i] = "branch"
    /\ queued_job[i] = None
    /\ pc' = [pc EXCEPT ![i] = IF single_shot[i] THEN "exit" ELSE "sleep"]
    /\ sleep_i' = [sleep_i EXCEPT ![i] = 0]
    /\ UNCHANGED <<jobs, alive, single_shot, queued_job, claims, run_log>>

\* faulty variant: the idle loop is "for _i in range(SECONDS): sleep(1)"
IdleSleepNoCheck(i) ==
    /\ pc[i] = "sleep"
    /\ IF sleep_i[i] + 1 < SECONDS
       THEN /\ sleep_i' = [sleep_i EXCEPT ![i] = @ + 1]
            /\ pc' = pc
       ELSE /\ sleep_i' = [sleep_i EXCEPT ![i] = 0]
            /\ pc' = [pc EXCEPT ![i] = "loop"]
    /\ UNCHANGED <<jobs, alive, single_shot, queued_job, claims, run_log>>

\* for _i in range(SECONDS): if killer.alive: sleep(1)
\* One pass with the flag set is one sleep(1). The flag never becomes true
\* again, so the passes after it is found false do nothing and are one step.
\* After the last pass the loop test is next (single_shot is false here).
IdleSleep(i) ==
    /\ pc[i] = "sleep"
    /\ IF alive[i] /\ sleep_i[i] + 1 < SECONDS
       THEN /\ sleep_i' = [sleep_i EXCEPT ![i] = @ + 1]
            /\ pc' = pc
       ELSE /\ sleep_i' = [sleep_i EXCEPT ![i] = 0]
            /\ pc' = [pc EXCEPT ![i] = "loop"]
    /\ UNCHANGED <<jobs, alive, single_shot, queued_job, claims, run_log>>

\* job_run.run(): the execution handler moves its job queued -> started
HandlerStart(i) ==
    /\ pc[i] = "run"
    /\ jobs[queued_job[i]].status = QUEUED
    /\ jobs' = [jobs EXCEPT ![queued_job[i]].status = STARTED]
    /\ UNCHANGED <<pc, alive, single_shot, queued_job, sleep_i, claims, run_log>>

\* job_run.run() returns with its job finished or failed; then queued_job = None
\* and: if options["single_shot"]: break
HandlerEnd(i, s) ==
    /\ pc[i] = "run"
    /\ jobs[queued_job[i]].status = STARTED
    /\ jobs' = [jobs EXCEPT ![queued_job[i]].status = s]
    /\ queued_job' = [queued_job EXCEPT ![i] = None]
    /\ pc' = [pc EXCEPT ![i] = IF single_shot[i] THEN "exit" ELSE "loop"]
    /\ UNCHANGED <<alive, single_shot, sleep_i, claims, run_log>>

\* job_run.run() raises, leaving its job in the status it had reached
HandlerRaise(i) ==
    /\ pc[i] = "run"
    /\ pc' = Propagate(i)
    /\ UNCHANGED <<jobs, alive, single_shot, queued_job, sleep_i, claims, run_log>>

Next ==
    \/ \E p \in Projects, t \in InsertedTypes, tie \in BOOLEAN : CreateJob(p, t, tie)
    \/ \E i \in Instances : Kill(i)
    \/ \E i \in Instances : LoopTest(i)
    \/ \E i \in Instances : SelectJob(i)
    \/ \E i \in Instances : Commit(i)
    \/ \E i \in Instances : StoreError(i)
    \/ \E i \in Instances : Run(i)
    \/ \E i \in Instances : NoJob(i)
    \/ \E i \in Instances : IdleSleep(i)
    \/ \E i \in Instances : HandlerStart(i)
    \/ \E i \in Instances, s \in {FINISHED, FAILED} : HandlerEnd(i, s)
    \/ \E i \in Instances : HandlerRaise(i)

Spec == Init /\ [][Next]_vars

(* ------------------------------------------- workers racing, fairly run *)
\* MaxJobs pending jobs across MaxJobs distinct free projects and every
\* worker in continuous mode
InitRace ==
    /\ \E t \in [1..MaxJobs -> InsertedTypes] :
           jobs = [k \in 1..MaxJobs |->
                      [project |-> k, type |-> t[k], status |-> PENDING,
                       created_at |-> k]]
    /\ pc = [i \in Instances |-> "loop"]
    /\ alive = [i \in Instances |-> TRUE]
    /\ single_shot = [i \in Instances |-> FALSE]
    /\ queued_job = [i \in Instances |-> None]
    /\ sleep_i = [i \in Instances |-> 0]
    /\ claims = [k \in 1..MaxJobs |-> 0]
    /\ run_log = [k \in 1..MaxJobs |-> <<>>]

\* the steps of worker i and of the handler it runs
Worker(i) ==
    \/ LoopTest(i)
    \/ SelectJob(i)
    \/ Commit(i)
    \/ Run(i)
    \/ NoJob(i)
    \/ IdleSleep(i)
    \/ HandlerStart(i)
    \/ \E s \in {FINISHED, FAILED} : HandlerEnd(i, s)
    \/ HandlerRaise(i)

NextRace ==
    \/ \E i \in Instances : LoopTest(i)
    \/ \E i \in Instances : SelectJob(i)
    \/ \E i \in Instances : Commit(i)
    \/ \E i \in Instances : Run(i)
    \/ \E i \in Instances : NoJob(i)
    \/ \E i \in Instances : IdleSleep(i)
    \/ \E i \in Instances : HandlerStart(i)
    \/ \E i \in Instances, s \in {FINISHED, FAILED} : HandlerEnd(i, s)
    \/ \E i \in Instances : HandlerRaise(i)

\* every worker process that can take a step eventually takes one
SpecRace ==
    InitRace /\ [][NextRace]_vars /\ \A i \in Instances : WF_vars(Worker(i))

(* ------------------------------------------------- jobs of every type *)
\* MaxJobs pending jobs of any type and project, every worker in continuous
\* mode
InitDispatch ==
    /\ \E t \in [1..MaxJobs -> JobTypes], p \in [1..MaxJobs -> Projects] :
           jobs = [k \in 1..MaxJobs |->
                      [project |-> p[k], type |-> t[k], status |-> PENDING,
                       created_at |-> k]]
    /\ pc = [i \in Instances |-> "loop"]
    /\ alive = [i \in Instances |-> TRUE]
    /\ single_shot = [i \in Instances |-> FALSE]
    /\ queued_job = [i \in Instances |-> None]
    /\ sleep_i = [i \in Instances |-> 0]
    /\ claims = [k \in 1..MaxJobs |-> 0]
    /\ run_log = [k \in 1..MaxJobs |-> <<>>]

SpecDispatch == InitDispatch /\ [][NextRace]_vars

(* ------------------------------------------- an unending stream of jobs *)
\* created_at is only compared (order_by), so the table is kept with each
\* created_at replaced by its rank among the values present
Ranked(js) ==
    [k \in DOMAIN js |->
        [js[k] EXCEPT !.created_at =
            1 + Cardinality({js[m].created_at : m \in
                                {n \in DOMAIN js : js[n].created_at < js[k].created_at}})]]

\* a finished or failed job, which no query of the scheduler reads again,
\* leaves the model and a pending job inserted later than every job present
\* takes its place
ReplaceJob(k, p) ==
    /\ k \in JobIds
    /\ jobs[k].status \in {FINISHED, FAILED}
    /\ \A i \in Instances : queued_job[i] # k
    /\ jobs' = Ranked([jobs EXCEPT ![k] =
                  [project |-> p, type |-> PACKAGE, status |-> PENDING,
                   created_at |-> MaxJobs + 1]])
    /\ claims' = [claims EXCEPT ![k] = 0]
    /\ run_log' = [run_log EXCEPT ![k] = <<>>]
    /\ UNCHANGED <<pc, alive, single_shot, queued_job, sleep_i>>

\* no signal; worker 1 runs in continuous mode, the others in either mode
InitStream ==
    /\ jobs = <<>>
    /\ pc = [i \in Instances |-> "loop"]
    /\ alive = [i \in Instances |-> TRUE]
    /\ single_shot \in {f \in [Instances -> BOOLEAN] : ~f[1]}
    /\ queued_job = [i \in Instances |-> None]
    /\ sleep_i = [i \in Instances |-> 0]
    /\ claims = [k \in 1..MaxJobs |-> 0]
    /\ run_log = [k \in 1..MaxJobs |-> <<>>]

\* the steps of worker i when no store error occurs and every handler returns
WorkerStream(i) ==
    \/ LoopTest(i)
    \/ SelectJob(i)
    \/ Commit(i)
    \/ Run(i)
    \/ NoJob(i)
    \/ IdleSleep(i)
    \/ HandlerStart(i)
    \/ \E s \in {FINISHED, FAILED} : HandlerEnd(i, s)

NextStream ==
    \/ \E p \in Projects, tie \in BOOLEAN : CreateJob(p, PACKAGE, tie)
    \/ \E k \in 1..MaxJobs, p \in Projects : ReplaceJob(k, p)
    \/ \E i \in Instances : LoopTest(i)
    \/ \E i \in Instances : SelectJob(i)
    \/ \E i \in Instances : Commit(i)
    \/ \E i \in Instances : Run(i)
    \/ \E i \in Instances : NoJob(i)
    \/ \E i \in Instances : IdleSleep(i)
    \/ \E i \in Instances : HandlerStart(i)
    \/ \E i \in Instances, s \in {FINISHED, FAILED} : HandlerEnd(i, s)

\* jobs are inserted whenever their senders like; every worker process that
\* can take a step eventually takes one
SpecStream ==
    InitStream /\ [][NextStream]_vars /\ \A i \in Instances : WF_vars(WorkerStream(i))

(* ---------------------------------------------------------------- claims *)
ProjectsInTable == {jobs[k].project : k \in JobIds}

ActiveJobsOf(p) ==
    {k \in JobIds : jobs[k].project = p /\ jobs[k].status \in ActiveStatuses}

\* worker i's SELECT returned a row in this step
Selects(i) == pc[i] = "select" /\ pc'[i] = "commit"

\* job k goes pending -> queued in this step
Claimed(k) == k \in JobIds /\ jobs[k].status = PENDING /\ jobs'[k].status = QUEUED

\* C1: in every reachable state each project has at most one job whose status
\* is queued or started, however many workers run the claim transaction.
C1_OneActiveJobPerProject ==
    \A p \in ProjectsInTable : Cardinality(ActiveJobsOf(p)) <= 1

\* C2: the pending -> queued claim of a job row is committed at most once over
\* all workers, and the job is handed to a runner at most once.
C2_ClaimedAtMostOnce ==
    \A k \in 1..MaxJobs : claims[k] <= 1 /\ Len(run_log[k]) <= 1

\* C2 witness: two workers raced, one skipped the row the other held locked,
\* and both claims are committed.
C2_Witness ==
    /\ pc[1] = "branch" /\ pc[2] = "branch"
    /\ queued_job[1] # None /\ queued_job[2] # None
    /\ queued_job[1] # queued_job[2]
    /\ claims[queued_job[1]] = 1 /\ claims[queued_job[2]] = 1

\* C3: no pending job of a project is set to queued while that project has a
\* job in status queued or started.
C3_BusyProjectNotClaimed ==
    [][\A k \in JobIds : Claimed(k) => ActiveJobsOf(jobs[k].project) = {}]_vars

\* the pending jobs of the projects with no queued or started job
EligibleJobs ==
    {k \in JobIds : jobs[k].status = PENDING /\ ActiveJobsOf(jobs[k].project) = {}}

\* those of them whose row no other worker's open transaction holds locked
UnlockedEligibleJobs(i) ==
    {k \in EligibleJobs :
        ~\E o \in Instances \ {i} : pc[o] = "commit" /\ queued_job[o] = k}

Oldest(k, S) == k \in S /\ \A m \in S : jobs[k].created_at <= jobs[m].created_at

C5_EveryJobClaimedOnce == <>[](\A k \in JobIds : claims[k] = 1)

\* the spec's reading of "no eligible candidate" for worker i: every pending
\* job belongs to a project with a queued or started job or is locked by
\* another transaction
NoCandidate(i) == UnlockedEligibleJobs(i) = {}

\* C6: a claim transaction that finds no eligible candidate leaves every job
\* row unchanged, reports no job and invokes no runner.
C6_EmptyPollChangesNothing ==
    [][\A i \in Instances :
          /\ (pc[i] = "select" /\ pc'[i] \notin {"select", "raised"} /\ NoCandidate(i))
                => /\ pc'[i] = "branch"
                   /\ queued_job'[i] = None
                   /\ UNCHANGED <<jobs, claims, run_log>>
          /\ (pc[i] = "branch" /\ queued_job[i] = None /\ pc'[i] # "branch")
                => /\ pc'[i] \in {"sleep", "exit"}
                   /\ UNCHANGED <<jobs, claims, run_log>>]_vars

\* C6 witness: a worker's poll reported no job while a pending job of a busy
\* project is in the table.
C6_Witness ==
    \E i \in Instances :
        /\ pc[i] = "sleep"
        /\ queued_job[i] = None
        /\ \E k \in JobIds : /\ jobs[k].status = PENDING
                              /\ ActiveJobsOf(jobs[k].project) # {}
        /\ EligibleJobs = {}

Terminated(i) == pc[i] \in {"raised", "exit"}

\* C7: when a claimed job has a type outside the dispatch table, a worker in
\* continuous mode is not terminated by the dispatch failure.
C7_UnknownTypeKeepsPolling ==
    [][\A i \in Instances :
          (/\ pc[i] = "branch"
           /\ queued_job[i] # None
           /\ ~single_shot[i]
           /\ jobs[queued_job[i]].type \notin {PACKAGE, DELTA_APPLY, PROCESS_PROJECTFILE})
          => ~Terminated(i)']_vars

\* C8: when the execution handler of a claimed job raises, a worker in
\* continuous mode is not terminated.
C8_HandlerFailureKeepsPolling ==
    [][\A i \in Instances : (pc[i] = "run" /\ ~single_shot[i]) => ~Terminated(i)']_vars

\* C9: a signal only clears the alive flag; a worker in continuous mode leaves
\* the loop only at the loop test; no worker leaves it between a committed
\* claim and the _run call for that job, nor while the job is running.
C9_GracefulShutdown ==
    [][\A i \in Instances :
          /\ (alive[i] /\ ~alive'[i])
                => UNCHANGED <<jobs, pc, single_shot, queued_job, sleep_i, claims, run_log>>
          /\ (pc[i] # "exit" /\ pc'[i] = "exit")
                => \/ pc[i] = "loop" /\ ~alive[i]
                   \/ single_shot[i] /\ pc[i] = "branch" /\ queued_job[i] = None
                   \/ /\ single_shot[i] /\ pc[i] = "run"
                      /\ jobs'[queued_job[i]].status \in {FINISHED, FAILED}
          /\ (pc[i] = "branch" /\ queued_job[i] # None /\ pc'[i] # "branch")
                => Len(run_log'[queued_job[i]]) = Len(run_log[queued_job[i]]) + 1
          /\ (pc[i] = "run" /\ pc'[i] \notin {"run", "raised"})
                => jobs'[queued_job[i]].status \in {FINISHED, FAILED}]_vars

\* C9 witness: the signal has reached a worker in continuous mode that stands
\* between its committed claim and the _run call for the job it claimed.
C9_Witness ==
    \E i \in Instances :
        /\ ~single_shot[i]
        /\ ~alive[i]
        /\ pc[i] = "branch"
        /\ queued_job[i] # None
        /\ jobs[queued_job[i]].status = QUEUED
        /\ run_log[queued_job[i]] = <<>>

\* C10: a store error during the claim transaction does not terminate the
\* loop: a worker inside the transaction is never terminated by its next step.
C10_StoreErrorKeepsPolling ==
    [][\A i \in Instances : pc[i] \in {"select", "commit"} => ~Terminated(i)']_vars

\* C11: a single-shot worker performs one iteration: from the loop test it
\* enters one claim transaction (flag true) or exits (flag false); it never
\* comes back to the loop test, never sleeps, runs at most the one job it
\* claimed, and exits after the empty poll and after the finished run.
C11_SingleShotOneIteration ==
    [][\A i \in Instances :
          (single_shot[i] /\ pc'[i] # pc[i]) =>
             /\ pc'[i] \notin {"loop", "sleep"}
             /\ pc[i] = "loop" => pc'[i] = (IF alive[i] THEN "select" ELSE "exit")
             /\ pc[i] = "select" => pc'[i] \in {"commit", "branch", "raised"}
             /\ pc[i] = "commit" => pc'[i] \in {"branch", "raised"}
             /\ (pc[i] = "branch" /\ queued_job[i] = None) => pc'[i] = "exit"
             /\ (pc[i] = "branch" /\ queued_job[i] # None) => pc'[i] \in {"run", "raised"}
             /\ pc[i] = "run" => pc'[i] \in {"exit", "raised"}
             /\ pc[i] \notin {"exit", "raised"}]_vars

\* C11 witness: of two single-shot workers one has claimed a job, run it to
\* its end and exited; the other has not started.
C11_Witness ==
    /\ single_shot[1] /\ single_shot[2]
    /\ pc[1] = "exit" /\ alive[1]
    /\ pc[2] = "loop"
    /\ \E k \in JobIds : jobs[k].status \in {FINISHED, FAILED} /\ Len(run_log[k]) = 1

\* C12: when eligible pending jobs tie on created_at, the job a worker's
\* claim query returns is determined by the table state.
C12_TieBrokenByFixedOrder ==
    \A i \in Instances : pc[i] = "select" => Cardinality(first(jobs_qs(i))) <= 1

ForwardTransitions ==
    {<<PENDING, QUEUED>>, <<QUEUED, STARTED>>, <<STARTED, FINISHED>>, <<STARTED, FAILED>>}

\* worker i takes a step of the scheduler loop (not of the handler it runs)
SchedulerStep(i) ==
    /\ pc[i] \in {"loop", "select", "commit", "branch", "sleep"}
    /\ pc'[i] # pc[i] \/ sleep_i'[i] # sleep_i[i] \/ queued_job'[i] # queued_job[i]

\* C13: a job's status only moves pending -> queued -> started -> finished or
\* failed; a scheduler step writes no row except at its commit, where the one
\* row it writes was pending and becomes queued.
C13_StatusMovesForward ==
    [][/\ \A k \in JobIds :
            \/ jobs'[k] = jobs[k]
            \/ /\ <<jobs[k].status, jobs'[k].status>> \in ForwardTransitions
               /\ jobs'[k] = [jobs[k] EXCEPT !.status = jobs'[k].status]
       /\ \A i \in Instances :
            SchedulerStep(i) =>
               \/ \A k \in JobIds : jobs'[k] = jobs[k]
               \/ /\ pc[i] = "commit" /\ pc'[i] = "branch"
                  /\ jobs[queued_job[i]].status = PENDING
                  /\ jobs' = [jobs EXCEPT ![queued_job[i]].status = QUEUED]]_vars

\* C13 witness: a job has gone through every status to a terminal one.
C13_Witness ==
    \E k \in JobIds : /\ jobs[k].status \in {FINISHED, FAILED}
                      /\ claims[k] = 1
                      /\ Len(run_log[k]) = 1

\* the claim transaction of worker i is rolled back after its query had
\* returned a row
AbortsWithRow(i) == pc[i] = "commit" /\ pc'[i] = "raised"

\* C14: when the claim transaction aborts after the job was selected and
\* saved, the committed row is still pending and unlocked, no claim is
\* recorded and no runner is invoked; the job can be claimed later.
C14_AbortLeavesJobPending ==
    [][\A i \in Instances :
          AbortsWithRow(i) =>
             /\ UNCHANGED <<jobs, claims, run_log>>
             /\ jobs'[queued_job[i]].status = PENDING
             /\ ~\E o \in Instances : pc'[o] = "commit" /\ queued_job'[o] = queued_job[i]]_vars

\* C14 witness: worker 1's claim transaction was rolled back after it had
\* selected a job, and worker 2 has claimed that job since.
C14_Witness ==
    /\ pc[1] = "raised"
    /\ queued_job[1] # None
    /\ run_log[queued_job[1]] = <<>>
    /\ pc[2] = "branch"
    /\ queued_job[2] = queued_job[1]
    /\ jobs[queued_job[1]].status = QUEUED

\* worker i takes a step of its idle loop
IdleStep(i) == pc[i] = "sleep" /\ (pc'[i] # "sleep" \/ sleep_i'[i] # sleep_i[i])

\* C15: the idle loop makes at most SECONDS sleeps of one unit, the flag being
\* read before each; with the flag false it sleeps no more and goes to the
\* loop test, which exits without another claim transaction.
C15_IdleSleepResponsive ==
    [][\A i \in Instances :
          /\ pc[i] = "sleep" => sleep_i[i] \in 0..(SECONDS - 1)
          /\ (IdleStep(i) /\ alive[i]) =>
                \/ pc'[i] = "sleep" /\ sleep_i'[i] = sleep_i[i] + 1
                \/ pc'[i] = "loop" /\ sleep_i[i] = SECONDS - 1
          /\ (IdleStep(i) /\ ~alive[i]) => pc'[i] = "loop"
          /\ (pc[i] = "loop" /\ ~alive[i] /\ pc'[i] # "loop") => pc'[i] = "exit"]_vars

\* C15 witness: the signal reached a worker that has slept part of its idle
\* interval.
C15_Witness ==
    \E i \in Instances : pc[i] = "sleep" /\ ~alive[i] /\ sleep_i[i] \in 1..(SECONDS - 2)

\* the handler the spec's dispatch table gives a job type
HandlerOfType(t) ==
    IF t = PACKAGE THEN "PackageJobRun"
    ELSE IF t = DELTA_APPLY THEN "DeltaApplyJobRun"
    ELSE IF t = PROCESS_PROJECTFILE THEN "ProcessProjectfileJobRun"
    ELSE "NotImplementedError"

\* the committed claims of job k whose _run call is still to come
AwaitingRun(k) == {i \in Instances : pc[i] = "branch" /\ queued_job[i] = k}

\* C16: for a claimed job of type package, delta-apply or process-projectfile
\* there is one handler run per committed claim, made for that job, and each
\* is of the handler the dispatch table maps the type to.
C16_OneMappedHandlerPerClaim ==
    \A k \in JobIds :
        jobs[k].type \in {PACKAGE, DELTA_APPLY, PROCESS_PROJECTFILE} =>
            /\ Len(run_log[k]) + Cardinality(AwaitingRun(k)) = claims[k]
            /\ \A n \in 1..Len(run_log[k]) : run_log[k][n] = HandlerOfType(jobs[k].type)

\* C16 witness: jobs of the three known types have each been claimed and
\* handed to their handler.
C16_Witness ==
    /\ Len(jobs) = 3
    /\ {jobs[k].type : k \in JobIds} = {PACKAGE, DELTA_APPLY, PROCESS_PROJECTFILE}
    /\ \A k \in JobIds : claims[k] = 1 /\ Len(run_log[k]) = 1

\* worker i has ended by an exception while the job it claimed is queued or
\* started: the job is active and no running worker is between its commit and
\* the end of its handler (a worker whose transaction was rolled back names
\* the job too, but then the job is pending or another worker holds it)
CrashedHolding(i) ==
    /\ pc[i] = "raised"
    /\ queued_job[i] # None
    /\ jobs[queued_job[i]].status \in ActiveStatuses
    /\ ~\E o \in Instances :
           pc[o] \in {"branch", "run"} /\ queued_job[o] = queued_job[i]

\* C17: once a worker has crashed while the job it claimed is queued or
\* started, that job keeps its status and no pending job of the same project
\* is claimed by any worker afterwards.
C17_CrashBlocksProject ==
    [][\A i \in Instances :
          CrashedHolding(i) =>
              /\ jobs'[queued_job[i]].status = jobs[queued_job[i]].status
              /\ \A k \in JobIds :
                     jobs[k].project = jobs[queued_job[i]].project => ~Claimed(k)]_vars

\* what the code does keep after such a crash: the job keeps its status and
\* no SELECT returns a pending job of its project
C17_CrashBlocksSelection ==
    [][\A i \in Instances :
          CrashedHolding(i) =>
              /\ jobs'[queued_job[i]].status = jobs[queued_job[i]].status
              /\ \A o \in Instances :
                     Selects(o) =>
                         jobs[queued_job'[o]].project # jobs[queued_job[i]].project]_vars

\* the spec's busy_project_ids: every project with a queued or started job
SpecBusyProjectIds == {p \in ProjectsInTable : ActiveJobsOf(p) # {}}

\* the spec's candidates, as worker i's statement sees them past locked rows
SpecCandidates(i) ==
    {k \in JobIds : /\ jobs[k].status = PENDING
                    /\ jobs[k].project \notin SpecBusyProjectIds
                    /\ ~RowLockedByOther(i, k)}

\* C18: the code's busy set holds exactly the busy projects that have a
\* pending job, and in every table state the candidate set of the code's
\* query equals the one computed from the set of all busy projects.
C18_CandidatesMatchSpec ==
    /\ busy_projects_ids =
           {p \in SpecBusyProjectIds :
               \E k \in JobIds : jobs[k].project = p /\ jobs[k].status = PENDING}
    /\ \A i \in Instances : jobs_qs(i) = SpecCandidates(i)

\* C18 witness: a worker is at its query while the two busy sets differ (a
\* project with a started job has no pending job) and a candidate remains.
C18_Witness ==
    \E i \in Instances :
        /\ pc[i] = "select"
        /\ busy_projects_ids # SpecBusyProjectIds
        /\ jobs_qs(i) # {}
        /\ \E k \in JobIds : jobs[k].status = STARTED

\* _run has rejected job k: its type is outside the dispatch table and the
\* call made for its committed claim has raised
Rejected(k) ==
    /\ jobs[k].type \notin {PACKAGE, DELTA_APPLY, PROCESS_PROJECTFILE}
    /\ run_log[k] # <<>>

\* C19: a claimed job of unknown type is rejected with no handler
\* constructed; it is queued then and stays queued, and no pending job of its
\* project is claimed by any worker afterwards.
C19_RejectedJobBlocksProject ==
    [][\A k \in JobIds :
          Rejected(k) =>
              /\ run_log[k] = <<"NotImplementedError">>
              /\ jobs[k].status = QUEUED /\ jobs'[k].status = QUEUED
              /\ \A m \in JobIds : jobs[m].project = jobs[k].project => ~Claimed(m)]_vars

\* what the code does keep after the rejection: no handler is constructed,
\* the job stays queued and no SELECT returns a pending job of its project
C19_RejectedJobBlocksSelection ==
    [][\A k \in JobIds :
          Rejected(k) =>
              /\ run_log[k] = <<"NotImplementedError">>
              /\ jobs[k].status = QUEUED /\ jobs'[k].status = QUEUED
              /\ \A o \in Instances :
                     Selects(o) => jobs[queued_job'[o]].project # jobs[k].project]_vars

\* C20: with a worker in continuous mode, fair scheduling, no crash, known
\* types and every handler run ending in finished or failed, every pending
\* job is eventually claimed, whatever jobs keep being inserted.
\* A job leaves the pending status only by the commit of its claim, so the
\* property is that no job is pending from some point on for ever.
C20_NoStarvation ==
    \A k \in 1..MaxJobs : []<>(k \notin JobIds \/ jobs[k].status # PENDING)

\* C20 witness: job k has been claimed while a pending job of another project,
\* inserted after it in the place of a finished or failed one, waits.
C20_Witness ==
    \E k \in JobIds, m \in JobIds :
        /\ m < k
        /\ jobs[m].created_at > jobs[k].created_at
        /\ jobs[m].status = PENDING
        /\ jobs[m].project # jobs[k].project
        /\ jobs[k].status = QUEUED
        /\ claims[k] = 1
====
